---- MODULE Spec2Model ----
(***************************************************************************)
(* A model of the Wordle game of this repository: the scoring function     *)
(* WordleGame.check_word, the validation gate WordleGame.is_valid_word     *)
(* with its cache and sticky api_available flag (src/wordle.py), the       *)
(* console loop WordleGame.start (src/wordle.py) and the pygame front end  *)
(* WordlePygame (src/runner.py).                                           *)
(*                                                                         *)
(* A word is a sequence of one-character strings.                          *)
(***************************************************************************)
EXTENDS Integers, Sequences, FiniteSets, TLC

VARIABLES
    host,              \* which program runs: "gui" (runner.py main), "console" (wordle.py main), "score"
    env,               \* the surroundings of one run: what the word list files hold, the size the player picks
    pc,                \* position of the running program
    validation_cache,  \* the shared dict word -> bool
    wordsize,          \* WordleGame.wordsize
    guessed_words,     \* WordleGame.guessed_words
    options,           \* WordleGame.wordList.options
    choice,            \* WordleGame.choice, the target
    guesses,           \* WordleGame.guesses
    api_available,     \* WordleGame.api_available
    current_screen,    \* WordlePygame.current_screen
    text,              \* WordlePygame.text, the input box
    active,            \* WordlePygame.active
    guess_log,         \* WordlePygame.guess_log
    tail,              \* handle_events: events of this batch handled since the screen changed
    loop_i,            \* WordleGame.start: iterations of the for loop already begun
    session_state,     \* "None", "Active", "Won", "Lost": what the player has been told
    remote_calls,      \* requests.get calls made by the current WordleGame
    last               \* what the last step did and showed

vars == <<host, env, pc, validation_cache, wordsize, guessed_words, options,
          choice, guesses, api_available, current_screen, text, active, guess_log,
          tail, loop_i, session_state, remote_calls, last>>

----------------------------------------------------------------------------
(* Characters, str.lower, str.upper, str.isalpha *)

LowerAlphabet == <<"a", "b", "c", "d", "e", "f", "g", "h", "i", "j", "k", "l", "m">>
UpperAlphabet == <<"A", "B", "C", "D", "E", "F", "G", "H", "I", "J", "K", "L", "M">>

IsLowerChar(c) == \E i \in DOMAIN LowerAlphabet : LowerAlphabet[i] = c
IsUpperChar(c) == \E i \in DOMAIN UpperAlphabet : UpperAlphabet[i] = c
IsAlphaChar(c) == IsLowerChar(c) \/ IsUpperChar(c)

LowerChar(c) ==
    IF IsUpperChar(c)
    THEN LowerAlphabet[CHOOSE i \in DOMAIN UpperAlphabet : UpperAlphabet[i] = c]
    ELSE c

UpperChar(c) ==
    IF IsLowerChar(c)
    THEN UpperAlphabet[CHOOSE i \in DOMAIN LowerAlphabet : LowerAlphabet[i] = c]
    ELSE c

lower(w) == [i \in 1..Len(w) |-> LowerChar(w[i])]
upper(w) == [i \in 1..Len(w) |-> UpperChar(w[i])]
isalpha(w) == Len(w) > 0 /\ \A i \in 1..Len(w) : IsAlphaChar(w[i])

----------------------------------------------------------------------------
(* WordleGame.check_word *)

EXACT == 2
CLOSE == 1
WRONG == 0

\* str.count
count(w, c) == Cardinality({i \in 1..Len(w) : w[i] = c})

\* set(self.choice)
set(w) == {w[i] : i \in 1..Len(w)}

\* dict.get(key, default)
get(d, k, default) == IF k \in DOMAIN d THEN d[k] ELSE default

\* a wrong version of the start: every letter of the target is counted once
check_word_start_single(target, size) ==
    [status |-> [i \in 1..size |-> WRONG],
     score |-> 0,
     letter_counts |-> [c \in set(target) |-> 1]]

\* the state the two loops of check_word work on
check_word_start(target, size) ==
    [status |-> [i \in 1..size |-> WRONG],
     score |-> 0,
     letter_counts |-> [c \in set(target) |-> count(target, c)]]

\* a wrong version of the first loop: it marks and counts down, but adds nothing
\* to the score
RECURSIVE exact_pass_unscored(_, _, _, _)
exact_pass_unscored(target, guess, i, acc) ==
    IF i > Len(guess) THEN acc
    ELSE IF guess[i] = target[i]
         THEN exact_pass_unscored(target, guess, i + 1,
                  [status |-> [acc.status EXCEPT ![i] = EXACT],
                   score |-> acc.score,
                   letter_counts |-> [acc.letter_counts EXCEPT ![guess[i]] = @ - 1]])
         ELSE exact_pass_unscored(target, guess, i + 1, acc)

\* first loop: for i, char in enumerate(guess): if char == self.choice[i]
RECURSIVE exact_pass(_, _, _, _)
exact_pass(target, guess, i, acc) ==
    IF i > Len(guess) THEN acc
    ELSE IF guess[i] = target[i]
         THEN exact_pass(target, guess, i + 1,
                  [status |-> [acc.status EXCEPT ![i] = EXACT],
                   score |-> acc.score + EXACT,
                   letter_counts |-> [acc.letter_counts EXCEPT ![guess[i]] = @ - 1]])
         ELSE exact_pass(target, guess, i + 1, acc)

\* a wrong version of the second loop: it does not skip the EXACT positions
RECURSIVE close_pass_no_skip(_, _, _)
close_pass_no_skip(guess, i, acc) ==
    IF i > Len(guess) THEN acc
    ELSE IF get(acc.letter_counts, guess[i], 0) > 0
         THEN close_pass_no_skip(guess, i + 1,
                  [status |-> [acc.status EXCEPT ![i] = CLOSE],
                   score |-> acc.score + CLOSE,
                   letter_counts |-> [acc.letter_counts EXCEPT ![guess[i]] = @ - 1]])
         ELSE close_pass_no_skip(guess, i + 1, acc)

\* another wrong version of the second loop: it never counts a letter down
RECURSIVE close_pass_no_decrement(_, _, _)
close_pass_no_decrement(guess, i, acc) ==
    IF i > Len(guess) THEN acc
    ELSE IF acc.status[i] # EXACT /\ get(acc.letter_counts, guess[i], 0) > 0
         THEN close_pass_no_decrement(guess, i + 1,
                  [status |-> [acc.status EXCEPT ![i] = CLOSE],
                   score |-> acc.score + CLOSE,
                   letter_counts |-> acc.letter_counts])
         ELSE close_pass_no_decrement(guess, i + 1, acc)

\* second loop: if status[i] != EXACT and letter_counts.get(char, 0) > 0
RECURSIVE close_pass(_, _, _)
close_pass(guess, i, acc) ==
    IF i > Len(guess) THEN acc
    ELSE IF acc.status[i] # EXACT /\ get(acc.letter_counts, guess[i], 0) > 0
         THEN close_pass(guess, i + 1,
                  [status |-> [acc.status EXCEPT ![i] = CLOSE],
                   score |-> acc.score + CLOSE,
                   letter_counts |-> [acc.letter_counts EXCEPT ![guess[i]] = @ - 1]])
         ELSE close_pass(guess, i + 1, acc)

\* self.choice[i] raises IndexError when the target is shorter than the guess,
\* status[i] = ... when the guess is longer than wordsize
check_word_raises(target, size, guess) ==
    Len(target) < Len(guess) \/ size < Len(guess)

\* a wrong version of check_word: the score grows with the guesses already used
check_word_of_counting(target, size, guess) ==
    LET done == close_pass(guess, 1,
                    exact_pass(target, guess, 1, check_word_start(target, size)))
    IN  [score |-> done.score + ((size + 1) - guesses),
         status |-> done.status]

\* check_word(self, guess) with self.choice = target and self.wordsize = size
check_word_of(target, size, guess) ==
    LET done == close_pass(guess, 1,
                    exact_pass(target, guess, 1, check_word_start(target, size)))
    IN  [score |-> done.score, status |-> done.status]

check_word(guess) == check_word_of(choice, wordsize, guess)

----------------------------------------------------------------------------
(* Bounds of the model *)

\* letters the exhaustively scored words are written in
NumLetters == 3

\* WordList.LISTSIZE, 1000 in the source, scaled down
LISTSIZE == 4

\* words the player may type that are in no word list
NumUnknown == 4

\* events of one batch of pygame.event.get() that follow the event that left
\* the game screen
MaxTail == 6

----------------------------------------------------------------------------
(* The words of the model *)

\* WordleGame.__init__: if wordsize < 5 or wordsize > 8
MinWordSize == 5
MaxWordSize == 8

\* WordlePygame.main_menu: word_sizes = [5, 6, 7, 8]
word_sizes == MinWordSize..MaxWordSize

SetMin(S) == CHOOSE x \in S : \A y \in S : x <= y

\* the player always picks the smallest size
PlaySizes == {SetMin(word_sizes)}

\* every word of size n the player types starts with Stem(n) and differs in its
\* last letter only
StemLetters == <<"a", "b", "c">>
Stem(n) == [i \in 1..(n - 1) |-> StemLetters[((i - 1) % Len(StemLetters)) + 1]]
EndChar(r) == LowerAlphabet[Len(StemLetters) + r]
WordOfRank(n, r) == Append(Stem(n), EndChar(r))

ListRank(k) == 2 * k
UnknownRank(j) == 2 * j - 1
ListWord(n, k) == WordOfRank(n, ListRank(k))
Ranks == {ListRank(k) : k \in 1..LISTSIZE} \cup {UnknownRank(j) : j \in 1..NumUnknown}

\* the lines of the file <n>.txt, stripped: LISTSIZE lower-case words, the same in
\* upper case, or a file that holds one word only
FileKinds == {"lower", "upper", "short"}
FileLines(kind, n) ==
    CASE kind = "lower" -> [k \in 1..LISTSIZE |-> ListWord(n, k)]
      [] kind = "upper" -> [k \in 1..LISTSIZE |-> upper(ListWord(n, k))]
      [] kind = "short" -> <<ListWord(n, 1)>>

\* wordlist.readline().strip(): the empty string at the end of the file
readline(lines, k) == IF k <= Len(lines) THEN lines[k] ELSE <<>>

\* the dictionary service's definitive answer (status code 200 or not): it knows
\* the list words and every unknown word but the second, whatever the case
DictionaryHas(word) ==
    /\ Len(word) > 0
    /\ lower(SubSeq(word, 1, Len(word) - 1)) = Stem(Len(word))
    /\ \E r \in Ranks : /\ EndChar(r) = LowerChar(word[Len(word)])
                         /\ r # UnknownRank(2)

----------------------------------------------------------------------------
(* What a step records for the observer *)

NoWord == <<>>

\* op: the operation of the step; raw and guess: what the player entered and the
\* normalised guess made of it; lookup: how is_valid_word answered ("cache",
\* "skipped", "remote", "failed") and what it returned, or NoLookup; messages: what
\* was shown or printed, in order; result: what check_word returned, or NoResult
NoResult == [score |-> -1, status |-> <<>>]
NoLookup == [path |-> "none", ret |-> FALSE]
Looked(o) == [path |-> o.lookup, ret |-> o.ret]
Entered(raw, guess) == [raw |-> raw, word |-> guess]
NoEntry == Entered(NoWord, NoWord)
Step(op, entry, lookup, messages, result) ==
    [op |-> op, raw |-> entry.raw, guess |-> entry.word, lookup |-> lookup,
     messages |-> messages, result |-> result]
Plain(op) == Step(op, NoEntry, NoLookup, <<>>, NoResult)

\* the step that builds a WordleGame; it also records whether the game it
\* replaces, if any, had api_available off
StartedGame ==
    [op |-> "new_game", raw |-> NoWord, guess |-> NoWord, lookup |-> NoLookup,
     messages |-> <<>>, result |-> NoResult, replaced_degraded |-> ~api_available]

----------------------------------------------------------------------------
(* WordList.load_word_list and WordleGame.__init__ *)

\* self.options after the loop over range(LISTSIZE)
loaded_options(lines) == [k \in 1..LISTSIZE |-> readline(lines, k)]

\* another wrong version of the load: the last word read is not cached
loaded_cache_short(cache, lines) ==
    [w \in DOMAIN cache \cup {readline(lines, k) : k \in 1..(LISTSIZE - 1)} |->
        IF \E k \in 1..(LISTSIZE - 1) : readline(lines, k) = w THEN TRUE ELSE cache[w]]

\* a wrong version of the load: the cache is started afresh with the words read
loaded_cache_fresh(cache, lines) ==
    [w \in {readline(lines, k) : k \in 1..LISTSIZE} |-> TRUE]

\* self.cache[word] = True for every word read
loaded_cache(cache, lines) ==
    [w \in DOMAIN cache \cup {readline(lines, k) : k \in 1..LISTSIZE} |->
        IF \E k \in 1..LISTSIZE : readline(lines, k) = w THEN TRUE ELSE cache[w]]

\* a wrong version of the size test: only sizes that are too small are refused
invalid_wordsize_lower_only(size) == size < MinWordSize

\* if wordsize < 5 or wordsize > 8: raise ValueError
invalid_wordsize(size) == size < MinWordSize \/ size > MaxWordSize

\* self.guesses = wordsize + 1
initial_guesses(size) == size + 1

\* a wrong version of the constructor: the flag of the game before is kept
NewGame_shared_flag(size) ==
    /\ wordsize' = size
    /\ guessed_words' = {}
    /\ options' = loaded_options(FileLines(env.file, size))
    /\ validation_cache' = loaded_cache(validation_cache, FileLines(env.file, size))
    /\ choice' \in set(options')
    /\ guesses' = initial_guesses(size)
    /\ api_available' = api_available
    /\ session_state' = "Active"
    /\ remote_calls' = 0

\* WordleGame(size, cache), for a valid size: the fields of the new game;
\* random.choice picks any element of options
NewGame(size) ==
    /\ wordsize' = size
    /\ guessed_words' = {}
    /\ options' = loaded_options(FileLines(env.file, size))
    /\ validation_cache' = loaded_cache(validation_cache, FileLines(env.file, size))
    /\ choice' \in set(options')
    /\ guesses' = initial_guesses(size)
    /\ api_available' = TRUE
    /\ session_state' = "Active"
    /\ remote_calls' = 0

----------------------------------------------------------------------------
(* WordleGame.is_valid_word *)

\* an outcome of one call: the value returned, the cache and the flag after it,
\* the branch taken, and the number of requests.get calls it made
Outcome(ret, cache, api, lookup, calls) ==
    [ret |-> ret, cache |-> cache, api |-> api, lookup |-> lookup, calls |-> calls]

\* a wrong version of the cache branch: an answer turns the flag back on
cache_hit_resets(word) ==
    Outcome(validation_cache[word], validation_cache, TRUE, "cache", 0)

\* if word in self.validation_cache: return self.validation_cache[word]
cache_hit(word) ==
    Outcome(validation_cache[word], validation_cache, api_available, "cache", 0)

\* if not self.api_available: return True
api_skipped(word) ==
    Outcome(TRUE, validation_cache, api_available, "skipped", 0)

\* a wrong version of the definitive branch: the answer is not cached
definitive_response_forgets(word, valid) ==
    Outcome(valid, validation_cache, api_available, "remote", 1)

\* valid = response.status_code == 200; cache it; return valid
definitive_response(word, valid) ==
    Outcome(valid, (word :> valid) @@ validation_cache, api_available, "remote", 1)

\* a wrong version of the failure branch: the word is cached as not valid
transport_failure_caches(word) ==
    Outcome(FALSE, (word :> FALSE) @@ validation_cache, FALSE, "failed", 1)

\* except (requests.Timeout, requests.RequestException): api_available = False;
\* return False
transport_failure(word) ==
    Outcome(FALSE, validation_cache, FALSE, "failed", 1)

\* a wrong version of is_valid_word: it looks at the flag before the cache
is_valid_word_flag_first(word) ==
    IF ~api_available THEN {api_skipped(word)}
    ELSE IF word \in DOMAIN validation_cache THEN {cache_hit(word)}
    ELSE {definitive_response(word, DictionaryHas(word)), transport_failure(word)}

\* a wrong version of is_valid_word: it asks the service whatever the flag says
is_valid_word_ignoring_flag(word) ==
    IF word \in DOMAIN validation_cache THEN {cache_hit(word)}
    ELSE {definitive_response(word, DictionaryHas(word)), transport_failure(word)}

\* the outcomes of is_valid_word(word): the request may fail in transport at any
\* call, and otherwise the service answers
is_valid_word(word) ==
    IF word \in DOMAIN validation_cache THEN {cache_hit(word)}
    ELSE IF ~api_available THEN {api_skipped(word)}
    ELSE {definitive_response(word, DictionaryHas(word)), transport_failure(word)}

----------------------------------------------------------------------------
(* The player *)

\* a message shown or printed: its kind and the word its text holds
Msg(kind, word) == [kind |-> kind, word |-> word]

\* The player works through the words of the model in the order of their ranks;
\* at any time the player may also repeat the word of the highest rank guessed so
\* far, type a malformed one, try the target (in either case of its letters), or,
\* once some word has been found not valid, open a session with the last of
\* the unknown words.  All these words share the stem, so the last letter tells
\* them apart.
EndOf(w) == LowerChar(w[Len(w)])
GuessedEnds == {EndOf(w) : w \in guessed_words}
TargetEnd == IF Len(choice) > 0 THEN EndOf(choice) ELSE ""
FreshRanks ==
    {r \in Ranks : EndChar(r) \notin GuessedEnds /\ EndChar(r) # TargetEnd}
GuessedRanks == {r \in Ranks : EndChar(r) \in GuessedEnds}
SetMax(S) == CHOOSE x \in S : \A y \in S : x >= y

MaySubmitEnd(c) ==
    \/ GuessedRanks # {} /\ LowerChar(c) = EndChar(SetMax(GuessedRanks))
    \/ ~IsAlphaChar(c)
    \/ LowerChar(c) = TargetEnd
    \/ /\ guessed_words = {}
       /\ \E w \in DOMAIN validation_cache : ~validation_cache[w]
       /\ LowerChar(c) = EndChar(UnknownRank(NumUnknown))
    \/ FreshRanks # {} /\ LowerChar(c) = EndChar(SetMin(FreshRanks))
MaySubmit(g) == Len(g) > 0 /\ MaySubmitEnd(g[Len(g)])

\* the last characters the player types: those of the words, one of them in
\* upper case too, and a digit
EndChars ==
    {EndChar(r) : r \in Ranks} \cup {UpperChar(EndChar(ListRank(1))), "3"}

\* the keys the player may press next: the next letter of the stem, then a last
\* character; any key is ignored by a full or inactive box
NextKeys ==
    IF ~active \/ Len(text) >= wordsize THEN {"a"}
    ELSE IF Len(text) < wordsize - 1 THEN {Stem(wordsize)[Len(text) + 1]}
    ELSE {c \in EndChars : MaySubmitEnd(c)}

\* the lines the console player enters: a whole word, or a line one letter short
ConsoleLines(n) == {Append(Stem(n), c) : c \in EndChars} \cup {Stem(n)}

----------------------------------------------------------------------------
(* WordlePygame: the main menu and the game screen's event loop *)

\* handle_events goes on with the events it fetched after one of them has left
\* the game screen: after a guess that won or lost the batch holds at most
\* MaxTail more events, and a click on the menu button is the last of its batch
InBatch ==
    current_screen # "game_screen" =>
        session_state \in {"Won", "Lost"} /\ tail < MaxTail
NextTail == tail' = IF current_screen = "game_screen" THEN 0 ELSE tail + 1

GameFields == <<wordsize, guessed_words, options, choice, guesses, api_available,
                validation_cache, session_state, remote_calls>>

\* handle_main_menu_click on a word size button
HandleMainMenuClick ==
    /\ host = "gui" /\ pc = "main_menu"
    /\ NewGame(env.size)
    /\ guess_log' = <<>>
    /\ current_screen' = "game_screen"
    /\ last' = StartedGame
    /\ UNCHANGED <<host, env, pc, text, active, tail, loop_i>>

\* run: current_screen == "game_screen" -> game_screen(): initialize_ui_elements,
\* then game_loop
GameScreen ==
    /\ host = "gui" /\ pc = "main_menu" /\ current_screen = "game_screen"
    /\ text' = <<>>
    /\ active' = TRUE
    /\ pc' = "game_loop"
    /\ last' = Plain("ui")
    /\ UNCHANGED <<host, env, current_screen, guess_log, tail, loop_i>>
    /\ UNCHANGED GameFields

\* game_loop: after handle_events, if current_screen != "game_screen": break
GameLoopBreak ==
    /\ host = "gui" /\ pc = "game_loop" /\ current_screen # "game_screen"
    /\ pc' = "main_menu"
    /\ tail' = 0
    /\ last' = Plain("ui")
    /\ UNCHANGED <<host, env, current_screen, text, active, guess_log, loop_i>>
    /\ UNCHANGED GameFields

\* reset_game
reset_game ==
    /\ NewGame(wordsize)
    /\ guess_log' = <<>>
    /\ current_screen' = "game_screen"

\* handle_mouse_click: on the input box, the reset button, the menu button or
\* anywhere else
HandleMouseClick ==
    /\ host = "gui" /\ pc = "game_loop"
    /\ InBatch /\ NextTail
    /\ \E where \in {"input_box", "reset", "menu", "elsewhere"} :
        /\ where = "elsewhere" => text = <<>>
        /\ last' = IF where = "reset" THEN StartedGame ELSE Plain("ui")
        /\ CASE where = "input_box" ->
                  /\ active' = TRUE
                  /\ UNCHANGED <<current_screen, guess_log>>
                  /\ UNCHANGED GameFields
             [] where = "reset" ->
                  /\ reset_game
                  /\ active' = TRUE
             [] where = "menu" ->
                  /\ current_screen' = "main_menu"
                  /\ UNCHANGED <<active, guess_log>>
                  /\ UNCHANGED GameFields
             [] where = "elsewhere" ->
                  /\ active' = FALSE
                  /\ UNCHANGED <<current_screen, guess_log>>
                  /\ UNCHANGED GameFields
    /\ UNCHANGED <<host, env, pc, text, loop_i>>

\* handle_key_press, K_BACKSPACE: self.text = self.text[:-1]
HandleBackspace ==
    /\ host = "gui" /\ pc = "game_loop"
    /\ InBatch /\ NextTail
    /\ text' = IF active /\ Len(text) > 0 THEN SubSeq(text, 1, Len(text) - 1) ELSE text
    /\ last' = Plain("ui")
    /\ UNCHANGED <<host, env, pc, current_screen, active, guess_log, loop_i>>
    /\ UNCHANGED GameFields

\* handle_key_press, any other key: if len(self.text) < wordsize: text += unicode
HandleCharKey ==
    /\ host = "gui" /\ pc = "game_loop"
    /\ InBatch /\ NextTail
    /\ \E ch \in NextKeys :
        /\ text' = IF active /\ Len(text) < wordsize THEN Append(text, ch) ELSE text
    /\ last' = Plain("ui")
    /\ UNCHANGED <<host, env, pc, current_screen, active, guess_log, loop_i>>
    /\ UNCHANGED GameFields

----------------------------------------------------------------------------
(* WordlePygame.process_guess *)

\* score == self.wordle_game.EXACT * self.wordle_game.wordsize
is_win(score) == score = EXACT * wordsize

\* elif self.wordle_game.guesses == 0
out_of_guesses(left) == left = 0

\* self.wordle_game.guesses -= 1
after_scored_guess(left) == left - 1

\* the message for a guess is_valid_word rejected: by api_available after the call
rejection_message(api) ==
    IF api THEN Msg("not_valid", NoWord) ELSE Msg("api_unavailable", NoWord)

\* a guess of the right size that is not a repeat: it joins guessed_words, is
\* validated and, if valid, scored
ProcessFreshGuess(guess) ==
    \E o \in is_valid_word(guess) :
        /\ guessed_words' = guessed_words \cup {guess}
        /\ validation_cache' = o.cache
        /\ api_available' = o.api
        /\ remote_calls' = remote_calls + o.calls
        /\ UNCHANGED <<wordsize, options, choice, active>>
        /\ IF ~o.ret
           THEN /\ last' = Step("invalid", Entered(text, guess), Looked(o),
                                <<rejection_message(o.api)>>, NoResult)
                /\ text' = <<>>
                /\ UNCHANGED <<pc, guesses, guess_log, current_screen, session_state>>
           ELSE IF check_word_raises(choice, wordsize, guess)
           THEN /\ last' = Step("raised", Entered(text, guess), Looked(o), <<>>, NoResult)
                /\ pc' = "crashed"
                /\ UNCHANGED <<text, guesses, guess_log, current_screen, session_state>>
           ELSE LET r == check_word(guess)
                    left == after_scored_guess(guesses)
                IN  /\ guess_log' = Append(guess_log, <<guess, r.status>>)
                    /\ text' = <<>>
                    /\ guesses' = left
                    /\ pc' = pc
                    /\ IF is_win(r.score)
                       THEN /\ last' = Step("scored", Entered(text, guess), Looked(o),
                                            <<Msg("won", NoWord)>>, r)
                            /\ current_screen' = "main_menu"
                            /\ session_state' = "Won"
                       ELSE IF out_of_guesses(left)
                       THEN /\ last' = Step("scored", Entered(text, guess), Looked(o),
                                            <<Msg("lost", choice)>>, r)
                            /\ current_screen' = "main_menu"
                            /\ session_state' = "Lost"
                       ELSE /\ last' = Step("scored", Entered(text, guess), Looked(o), <<>>, r)
                            /\ UNCHANGED <<current_screen, session_state>>

\* handle_key_press, K_RETURN: process_guess
ProcessGuess ==
    /\ host = "gui" /\ pc = "game_loop" /\ active
    /\ InBatch /\ NextTail
    /\ Len(text) = wordsize => MaySubmit(lower(text))
    /\ LET guess == lower(text)
       IN  IF Len(guess) # wordsize
           THEN /\ last' = Step("wrong_length", Entered(text, guess), NoLookup, <<>>, NoResult)
                /\ UNCHANGED <<pc, text, active, guess_log, current_screen>>
                /\ UNCHANGED GameFields
           ELSE IF ~isalpha(guess)
           THEN /\ last' = Step("non_letter", Entered(text, guess), NoLookup,
                                <<Msg("invalid_input", NoWord)>>, NoResult)
                /\ text' = <<>>
                /\ UNCHANGED <<pc, active, guess_log, current_screen>>
                /\ UNCHANGED GameFields
           ELSE IF guess \in guessed_words
           THEN /\ last' = Step("duplicate", Entered(text, guess), NoLookup,
                                <<Msg("already_guessed", guess)>>, NoResult)
                /\ text' = <<>>
                /\ UNCHANGED <<pc, active, guess_log, current_screen>>
                /\ UNCHANGED GameFields
           ELSE ProcessFreshGuess(guess)
    /\ UNCHANGED <<host, env, loop_i>>

\* K_RETURN while the input box is not active: nothing happens
IgnoredReturn ==
    /\ host = "gui" /\ pc = "game_loop"
    /\ InBatch /\ NextTail /\ ~active
    /\ last' = Plain("ui")
    /\ UNCHANGED <<host, env, pc, current_screen, text, active, guess_log, loop_i>>
    /\ UNCHANGED GameFields

----------------------------------------------------------------------------
(* wordle.py: main and WordleGame.start *)

\* the sizes the console player enters: the one of this run, and one on either
\* side of the valid range
ConsoleSizes == {env.size, MinWordSize - 1, MaxWordSize + 1}

\* main: WordleGame(int(input), {}) and game.start(); any exception is printed
ConsoleMain ==
    /\ host = "console" /\ pc = "console_main"
    /\ \E size \in ConsoleSizes :
        IF invalid_wordsize(size)
        THEN /\ pc' = "console_done"
             /\ last' = Step("value_error", NoEntry, NoLookup,
                             <<Msg("error", NoWord)>>, NoResult)
             /\ UNCHANGED GameFields
        ELSE /\ NewGame(size)
             /\ pc' = "start"
             /\ last' = StartedGame
    /\ loop_i' = 0
    /\ UNCHANGED <<host, env, current_screen, text, active, guess_log, tail>>

\* get_guess: a line whose length is not wordsize is asked for again
GetGuessAgain ==
    /\ host = "console" /\ pc = "start"
    /\ \E raw \in ConsoleLines(wordsize) :
        /\ Len(upper(raw)) # wordsize
        /\ last' = Step("wrong_length", Entered(raw, upper(raw)), NoLookup, <<>>, NoResult)
    /\ UNCHANGED <<host, env, pc, current_screen, text, active, guess_log, tail, loop_i>>
    /\ UNCHANGED GameFields

\* for _ in range(self.guesses): the loop ends, and the word is revealed, once
\* the body has run self.guesses times
loop_exhausted(begun) == begun >= guesses

\* the step after the body of the loop did not return: the next iteration, or
\* print(f"The word was {self.choice}.")
LoopContinues(op, entry, lookup, messages, result) ==
    IF loop_exhausted(loop_i')
    THEN /\ last' = Step(op, entry, lookup,
                         Append(messages, Msg("lost", choice)), result)
         /\ session_state' = "Lost"
         /\ pc' = "console_done"
    ELSE /\ last' = Step(op, entry, lookup, messages, result)
         /\ UNCHANGED <<session_state, pc>>

\* what is_valid_word prints itself: the warning, when the request failed
printed_by_lookup(o) ==
    IF o.lookup = "failed" THEN <<Msg("warning", NoWord)>> ELSE <<>>

\* one iteration of the loop of start, from get_guess returning a word of the
\* right size
StartIteration ==
    /\ host = "console" /\ pc = "start"
    /\ \E raw \in ConsoleLines(wordsize) :
        LET guess == upper(raw)
        IN  /\ Len(guess) = wordsize
            /\ MaySubmit(guess)
            /\ loop_i' = loop_i + 1
            /\ UNCHANGED <<wordsize, options, choice, guesses>>
            /\ IF guess \in guessed_words
               THEN /\ LoopContinues("duplicate", Entered(raw, guess), NoLookup,
                                     <<Msg("already_guessed", guess)>>, NoResult)
                    /\ UNCHANGED <<guessed_words, validation_cache, api_available,
                                   remote_calls>>
               ELSE \E o \in is_valid_word(guess) :
                    /\ guessed_words' = guessed_words \cup {guess}
                    /\ validation_cache' = o.cache
                    /\ api_available' = o.api
                    /\ remote_calls' = remote_calls + o.calls
                    /\ IF ~o.ret
                       THEN LoopContinues("invalid", Entered(raw, guess), Looked(o),
                                Append(printed_by_lookup(o), Msg("not_valid", NoWord)),
                                NoResult)
                       ELSE IF check_word_raises(choice, wordsize, guess)
                       THEN /\ last' = Step("raised", Entered(raw, guess), Looked(o),
                                            <<Msg("error", NoWord)>>, NoResult)
                            /\ pc' = "console_done"
                            /\ UNCHANGED session_state
                       ELSE LET r == check_word(guess)
                            IN  IF is_win(r.score)
                                THEN /\ last' = Step("scored", Entered(raw, guess), Looked(o),
                                           <<Msg("guess", guess), Msg("won", NoWord)>>, r)
                                     /\ session_state' = "Won"
                                     /\ pc' = "console_done"
                                ELSE LoopContinues("scored", Entered(raw, guess), Looked(o),
                                         <<Msg("guess", guess)>>, r)
    /\ UNCHANGED <<host, env, current_screen, text, active, guess_log, tail>>

----------------------------------------------------------------------------
(* The programs *)

EmptyCache == [w \in {} |-> TRUE]

\* the pygame front end is run on lower-case lists (it lower-cases the guesses)
Envs(h) ==
    [file : IF h = "gui" THEN FileKinds \ {"upper"} ELSE FileKinds, size : PlaySizes]

\* before any WordleGame exists: runner.py main and WordlePygame.__init__, or
\* wordle.py main
Init ==
    /\ host \in {"gui", "console"}
    /\ env \in Envs(host)
    /\ pc = IF host = "gui" THEN "main_menu" ELSE "console_main"
    /\ validation_cache = EmptyCache
    /\ wordsize = 0
    /\ guessed_words = {}
    /\ options = <<>>
    /\ choice = NoWord
    /\ guesses = 0
    /\ api_available = TRUE
    /\ current_screen = "main_menu"
    /\ text = <<>>
    /\ active = FALSE
    /\ guess_log = <<>>
    /\ tail = 0
    /\ loop_i = 0
    /\ session_state = "None"
    /\ remote_calls = 0
    /\ last = Plain("init")

----------------------------------------------------------------------------
(* check_word on its own: every target and guess over a small alphabet, and the
   two pairs of words the specification names.  check_word only compares
   letters for equality, so renaming the letters of target and guess alike
   changes nothing: the targets over the small alphabet are taken to start
   with its first letter. *)

ScoreLetters == {LowerAlphabet[i] : i \in 1..NumLetters}
SPEED == <<"S", "P", "E", "E", "D">>
ERASE == <<"E", "R", "A", "S", "E">>
ABCDE == <<"A", "B", "C", "D", "E">>
EABCD == <<"E", "A", "B", "C", "D">>
ScoreWords == [1..MinWordSize -> ScoreLetters] \cup {SPEED, ERASE, ABCDE, EABCD}
ScoreTargets ==
    {w \in [1..MinWordSize -> ScoreLetters] : w[1] = LowerAlphabet[1]}
        \cup {SPEED, ERASE, ABCDE, EABCD}

InitScore ==
    /\ host = "score"
    /\ env = [file |-> "lower", size |-> MinWordSize]
    /\ pc = "score"
    /\ validation_cache = EmptyCache
    /\ choice \in ScoreTargets
    /\ wordsize = Len(choice)
    /\ guessed_words = {}
    /\ options = <<>>
    /\ guesses = initial_guesses(wordsize)
    /\ api_available = TRUE
    /\ current_screen = "main_menu"
    /\ text = <<>>
    /\ active = FALSE
    /\ guess_log = <<>>
    /\ tail = 0
    /\ loop_i = 0
    /\ session_state = "Active"
    /\ remote_calls = 0
    /\ last = Plain("init")

\* score, status = self.check_word(guess)
CheckWord ==
    /\ host = "score" /\ pc = "score"
    /\ \E g \in ScoreWords :
        /\ Len(g) = wordsize
        /\ last' = Step("check_word", Entered(g, g), NoLookup, <<>>, check_word(g))
    /\ pc' = "scored"
    /\ UNCHANGED <<host, env, current_screen, text, active, guess_log, tail, loop_i>>
    /\ UNCHANGED GameFields

NextScore == CheckWord

SpecScore == InitScore /\ [][NextScore]_vars

Next ==
    \/ HandleMainMenuClick
    \/ GameScreen
    \/ GameLoopBreak
    \/ HandleMouseClick
    \/ HandleBackspace
    \/ HandleCharKey
    \/ ProcessGuess
    \/ IgnoredReturn
    \/ ConsoleMain
    \/ GetGuessAgain
    \/ StartIteration

Spec == Init /\ [][Next]_vars

----------------------------------------------------------------------------
(* Properties of check_word, checked under SpecScore *)

\* the two-pass rule, stated position by position: a position is Exact when the
\* letters agree; a letter has as many credits left as the target holds of it
\* less its Exact positions; the k-th position of a letter that is not Exact is
\* Close when k is at most the credits left
PositionsOf(w, c) == {i \in 1..Len(w) : w[i] = c}
ExactPositions(target, guess) == {i \in 1..Len(guess) : guess[i] = target[i]}
CreditsLeft(target, guess, c) ==
    count(target, c) - Cardinality(PositionsOf(guess, c) \cap ExactPositions(target, guess))
EarlierOpen(target, guess, i) ==
    {j \in 1..(i - 1) : guess[j] = guess[i] /\ j \notin ExactPositions(target, guess)}
ClosePositions(target, guess) ==
    {i \in 1..Len(guess) :
        /\ i \notin ExactPositions(target, guess)
        /\ Cardinality(EarlierOpen(target, guess, i)) < CreditsLeft(target, guess, guess[i])}
TwoPassStatus(target, guess) ==
    [i \in 1..Len(guess) |->
        IF i \in ExactPositions(target, guess) THEN EXACT
        ELSE IF i \in ClosePositions(target, guess) THEN CLOSE ELSE WRONG]
TwoPassScore(target, guess) ==
    EXACT * Cardinality(ExactPositions(target, guess))
        + CLOSE * Cardinality(ClosePositions(target, guess))

RECURSIVE SumTo(_, _)
SumTo(seq, n) == IF n = 0 THEN 0 ELSE seq[n] + SumTo(seq, n - 1)
SumOf(seq) == SumTo(seq, Len(seq))

Range(seq) == {seq[i] : i \in 1..Len(seq)}
Marked(status, mark) == {i \in 1..Len(status) : status[i] = mark}
Scored == last.op = "check_word"

\* C1: for every target and guess of equal length, check_word returns exactly
\* what the two-pass rule gives: Exact where the letters agree, then, left to
\* right over the other positions, Close while the letter has credit left and
\* Wrong otherwise, with score 2 per Exact and 1 per Close.
C1_TwoPass ==
    Scored =>
        last.result = [score |-> TwoPassScore(choice, last.guess),
                       status |-> TwoPassStatus(choice, last.guess)]

\* a scored guess with Exact, Close and Wrong letters, one letter of it both
\* Close at one position and Wrong at a later one
C1_Witness ==
    /\ Scored
    /\ Range(last.result.status) = {EXACT, CLOSE, WRONG}
    /\ \E i, j \in 1..Len(last.guess) :
        /\ i < j /\ last.guess[i] = last.guess[j]
        /\ last.result.status[i] = CLOSE /\ last.result.status[j] = WRONG

\* C4: the score lies in 0..2n, is the sum of the statuses, is 2n exactly when
\* every status is Exact, and that happens exactly when the guess is the target.
C4_ScoreRange ==
    Scored =>
        LET r == last.result
            n == Len(last.guess)
            AllExact == \A i \in 1..n : r.status[i] = EXACT
        IN  /\ r.score \in 0..(2 * n)
            /\ r.score = SumOf(r.status)
            /\ (r.score = 2 * n) <=> AllExact
            /\ AllExact <=> (last.guess = choice)

\* the target itself was scored: 2n, every status Exact
C4_Witness ==
    /\ Scored
    /\ last.guess = choice
    /\ last.result.score = 2 * wordsize
    /\ Range(last.result.status) = {EXACT}

\* C5: a letter is marked Close at most as often as the target holds it less
\* its Exact matches, the Close marks go to its leftmost positions that are not
\* Exact, and SPEED scored against ERASE gives Close, Wrong, Wrong, Close, Close.
C5_DuplicateLetters ==
    Scored =>
        LET g == last.guess
            st == last.result.status
        IN  /\ \A c \in set(g) :
                /\ Cardinality(PositionsOf(g, c) \cap Marked(st, CLOSE))
                     <= count(choice, c)
                          - Cardinality(PositionsOf(g, c) \cap Marked(st, EXACT))
                /\ \A i, j \in PositionsOf(g, c) :
                     i < j /\ st[j] = CLOSE /\ st[i] # EXACT => st[i] = CLOSE
            /\ (choice = SPEED /\ g = ERASE) =>
                 st = <<CLOSE, WRONG, WRONG, CLOSE, CLOSE>>

\* ERASE was scored against the target SPEED
C5_Witness ==
    /\ Scored
    /\ choice = SPEED
    /\ last.guess = ERASE
    /\ last.result.score = 3

----------------------------------------------------------------------------
(* Properties of the sessions, checked under Spec *)

\* the steps that handle a submitted guess
SubmitOps == {"wrong_length", "non_letter", "duplicate", "invalid", "raised", "scored"}
RejectOps == {"wrong_length", "non_letter", "duplicate", "invalid"}

\* the attempts the player still has: the GUI counts them down in guesses, the
\* console in the iterations of its loop still to come
AttemptsLeft == IF host = "console" THEN guesses - loop_i ELSE guesses

\* C2: the lookup that fails in transport returns False and turns the flag off;
\* from then on, within the session, no request is made, and a lookup of a word
\* that is not in the cache returns True.
C2_FailClosedOnceThenOpen ==
    [][/\ last'.lookup.path = "failed" =>
            /\ api_available /\ ~api_available'
            /\ ~last'.lookup.ret
            /\ remote_calls' = remote_calls + 1
       /\ (~api_available /\ last'.op # "new_game") =>
            /\ remote_calls' = remote_calls
            /\ (last'.lookup.path # "none"
                  /\ last'.guess \notin DOMAIN validation_cache) =>
                 last'.lookup = [path |-> "skipped", ret |-> TRUE]
      ]_vars

\* after the one failed request of the session, a word the dictionary does not
\* hold was accepted without a request and scored
C2_Witness ==
    /\ ~api_available
    /\ remote_calls >= 1
    /\ last.op = "scored"
    /\ last.lookup = [path |-> "skipped", ret |-> TRUE]
    /\ ~DictionaryHas(last.guess)

\* C6: api_available starts true with each WordleGame, changes only from true
\* to false, on a transport failure in is_valid_word, and is never set back
\* within the session.
C6_StickyFlag ==
    [][/\ last'.op = "new_game" => api_available'
       /\ api_available' # api_available =>
            \/ api_available /\ last'.lookup.path = "failed"
            \/ last'.op = "new_game"
      ]_vars

\* with the flag off, a cached word was looked up and scored, and the flag is
\* still off
C6_Witness ==
    /\ ~api_available
    /\ last.op = "scored"
    /\ last.lookup = [path |-> "cache", ret |-> TRUE]

\* C3: a guess rejected for its length, a non-letter, being a repeat or failing
\* validation leaves the attempts the player has unchanged; a scored guess takes
\* exactly one.
C3_RejectedGuessesAreFree ==
    [][/\ last'.op \in RejectOps => AttemptsLeft' = AttemptsLeft
       /\ last'.op = "scored" => AttemptsLeft' = AttemptsLeft - 1
      ]_vars

\* C7: in an Active session, a guess that spells the target (of the session's
\* word length) ends the session in Won.
C7_TargetGuessWins ==
    [][(/\ session_state = "Active"
        /\ last'.op \in SubmitOps
        /\ Len(choice) = wordsize
        /\ lower(last'.raw) = lower(choice))
          => session_state' = "Won"
      ]_vars

\* C8: an Active session ends in Lost exactly on a scored guess that is not an
\* exact match and takes the last attempt, and the target is then revealed; an
\* exact match ends it in Won.
C8_LostExactlyWhenOutOfGuesses ==
    [][session_state = "Active" =>
         LET Missed == /\ last'.op = "scored"
                       /\ ~is_win(last'.result.score)
                       /\ AttemptsLeft' = 0
         IN  /\ (session_state' = "Lost") <=> Missed
             /\ session_state' = "Lost" => Msg("lost", choice) \in Range(last'.messages)
             /\ (last'.op = "scored" /\ is_win(last'.result.score))
                  => session_state' = "Won"
      ]_vars

\* C9: a word already in guessed_words is rejected as a repeat, whether it was
\* scored or rejected before, the repeat takes none of the attempts the player
\* has, and no word is scored twice.
C9_DuplicateRejectedFree ==
    [][/\ (last'.op \in SubmitOps \ {"wrong_length", "non_letter"}
             /\ last'.guess \in guessed_words) => last'.op = "duplicate"
       /\ last'.op = "duplicate" =>
            /\ AttemptsLeft' = AttemptsLeft
            /\ guessed_words' = guessed_words
       /\ last'.op = "scored" => last'.guess \notin guessed_words
      ]_vars

\* C10: once the session is Won or Lost, no step but the start of a new game
\* validates, scores, logs or counts a guess.
C10_TerminalStatesFinal ==
    [][(session_state \in {"Won", "Lost"} /\ last'.op # "new_game") =>
         UNCHANGED <<guessed_words, validation_cache, api_available, guesses,
                     guess_log, remote_calls, session_state>>
      ]_vars

\* the steps in which is_valid_word was called
Looks(step) == step.lookup.path # "none"

\* C11: a lookup of a word that is in the cache returns the cached boolean,
\* makes no request and changes neither the cache nor api_available, whether
\* the flag is on or off.
C11_CacheHit ==
    [][(Looks(last') /\ last'.guess \in DOMAIN validation_cache) =>
         /\ last'.lookup = [path |-> "cache", ret |-> validation_cache[last'.guess]]
         /\ remote_calls' = remote_calls
         /\ validation_cache' = validation_cache
         /\ api_available' = api_available
      ]_vars

\* with the flag off, a word cached as not valid was looked up and rejected
C11_Witness ==
    /\ ~api_available
    /\ last.op = "invalid"
    /\ last.lookup = [path |-> "cache", ret |-> FALSE]
    /\ ~validation_cache[last.guess]

\* C12: over list loads, lookups, resets and new games sharing the cache, no
\* key leaves the cache and no key changes the boolean it maps to.
C12_CacheMonotone ==
    [][\A w \in DOMAIN validation_cache :
         /\ w \in DOMAIN validation_cache'
         /\ validation_cache'[w] = validation_cache[w]
      ]_vars

\* a game was built on a cache that holds a word found not valid by an earlier
\* game, and the entry is still there
C12_Witness ==
    /\ last.op = "new_game"
    /\ \E w \in DOMAIN validation_cache :
        ~validation_cache[w] /\ w \notin set(options)

\* C13: no session exists whose word list, target or cache holds an entry read
\* past the end of a short word list file.
C13_NoPartialSession ==
    session_state # "None" =>
        /\ NoWord \notin set(options)
        /\ choice # NoWord
        /\ NoWord \notin DOMAIN validation_cache

\* the kinds of the messages a step showed
Kinds(step) == {step.messages[i].kind : i \in 1..Len(step.messages)}

\* C14: in an Active session a guess of the wrong length, with a non-letter, or
\* already guessed is rejected: the session stays Active, no attempt is used,
\* neither is_valid_word nor check_word is called, and the player is told which
\* of the three it was.
C14_MalformedGuessRejected ==
    [][(session_state = "Active" /\ last'.op \in SubmitOps) =>
         LET g == last'.guess
             WrongLength == Len(g) # wordsize
             NonLetter == ~WrongLength /\ ~isalpha(g)
             Duplicate == ~WrongLength /\ ~NonLetter /\ g \in guessed_words
         IN  /\ (WrongLength \/ NonLetter \/ Duplicate) =>
                  /\ session_state' = "Active"
                  /\ AttemptsLeft' = AttemptsLeft
                  /\ ~Looks(last')
                  /\ last'.result = NoResult
             /\ WrongLength =>
                  /\ Kinds(last') # {}
                  /\ Kinds(last') \cap {"invalid_input", "already_guessed"} = {}
             /\ NonLetter =>
                  /\ "invalid_input" \in Kinds(last')
                  /\ "already_guessed" \notin Kinds(last')
             /\ Duplicate =>
                  /\ "already_guessed" \in Kinds(last')
                  /\ "invalid_input" \notin Kinds(last')
      ]_vars

\* C15: a definitive answer of the service is cached under the word looked up,
\* is the value returned, and leaves api_available true; a word in the cache
\* is looked up without a request.
C15_DefinitiveResponse ==
    [][/\ last'.lookup.path = "remote" =>
            /\ last'.guess \notin DOMAIN validation_cache
            /\ last'.lookup.ret = DictionaryHas(last'.guess)
            /\ validation_cache' = (last'.guess :> last'.lookup.ret) @@ validation_cache
            /\ api_available /\ api_available'
            /\ remote_calls' = remote_calls + 1
       /\ (Looks(last') /\ last'.lookup.path # "cache") =>
            last'.guess \notin DOMAIN validation_cache
      ]_vars

\* a word the service had answered not-found for in an earlier game was looked
\* up again, with the flag on, from the cache and without a request
C15_Witness ==
    /\ api_available
    /\ remote_calls = 0
    /\ last.lookup = [path |-> "cache", ret |-> FALSE]
    /\ ~DictionaryHas(last.guess)

\* C16: a lookup that fails in transport writes nothing to the cache: the cache
\* is unchanged, the word is not in it, and of the game's fields that
\* is_valid_word can write only api_available changes.
C16_FailureNotCached ==
    [][last'.lookup.path = "failed" =>
         /\ validation_cache' = validation_cache
         /\ last'.guess \notin DOMAIN validation_cache'
         /\ api_available /\ ~api_available'
         /\ UNCHANGED <<wordsize, options, choice, guesses>>
      ]_vars

\* the request for a word the dictionary holds failed: the word was rejected,
\* the flag is off, and the cache has no entry for the word
C16_Witness ==
    /\ last.lookup = [path |-> "failed", ret |-> FALSE]
    /\ ~api_available
    /\ DictionaryHas(last.guess)
    /\ last.guess \notin DOMAIN validation_cache

\* C17: a word size outside 5..8 is refused before a word list is read or the
\* cache written, so every game built has a size in 5..8; a game that is built
\* starts with wordsize + 1 guesses, no guessed words and api_available true.
C17_Construction ==
    [][/\ last'.op = "value_error" =>
            UNCHANGED <<validation_cache, options, choice, wordsize, session_state>>
       /\ last'.op = "new_game" =>
            /\ wordsize' \in MinWordSize..MaxWordSize
            /\ guesses' = wordsize' + 1
            /\ guessed_words' = {}
            /\ api_available'
      ]_vars

\* a size out of range was refused: no list, no cache entry, no session
C17_Witness ==
    /\ last.op = "value_error"
    /\ options = <<>>
    /\ DOMAIN validation_cache = {}
    /\ session_state = "None"

\* C18: what check_word returns is a function of target and guess alone, the
\* same whatever guesses, guessed_words, the cache and api_available are, and
\* calling it again after the step gives the same; a scored step changes the
\* game only by what its caller does (the guess joins guessed_words, the GUI
\* counts guesses down, a lookup from cache or skipped changes nothing).
C18_CheckWordPure ==
    [][last'.op = "scored" =>
         /\ last'.result = [score |-> TwoPassScore(choice, last'.guess),
                            status |-> TwoPassStatus(choice, last'.guess)]
         /\ check_word_of(choice', wordsize', last'.guess) = last'.result
         /\ UNCHANGED <<choice, wordsize, options>>
         /\ guessed_words' = guessed_words \cup {last'.guess}
         /\ guesses' = IF host = "gui" THEN guesses - 1 ELSE guesses
         /\ last'.lookup.path \in {"cache", "skipped"} =>
              UNCHANGED <<validation_cache, api_available>>
      ]_vars

\* a guess was scored late in a GUI game in degraded mode
C18_Witness ==
    /\ last.op = "scored"
    /\ ~api_available
    /\ guesses <= 2
    /\ Cardinality(guessed_words) >= 4
    /\ last.result.score > 0

\* C19: a guess that rearranges the letters of the target with no letter in
\* its place is scored all Close, wordsize in total; EABCD against ABCDE
\* scores 5.
Rearranges(guess, target) ==
    /\ Len(guess) = Len(target)
    /\ \A c \in set(guess) \cup set(target) : count(guess, c) = count(target, c)

C19_Rearrangement ==
    (Scored /\ Rearranges(last.guess, choice)
        /\ ExactPositions(choice, last.guess) = {}) =>
        /\ \A i \in 1..wordsize : last.result.status[i] = CLOSE
        /\ last.result.score = CLOSE * wordsize
        /\ (choice = ABCDE /\ last.guess = EABCD) => last.result.score = 5

\* EABCD was scored against the target ABCDE
C19_Witness ==
    /\ Scored
    /\ choice = ABCDE
    /\ last.guess = EABCD
    /\ last.result = [score |-> 5, status |-> <<CLOSE, CLOSE, CLOSE, CLOSE, CLOSE>>]

\* C20: in an Active GUI game, a guess is_valid_word rejected is reported with
\* the degraded-mode warning exactly when its request failed in transport, and
\* as not a valid word when the service or the cache said so.
C20_RejectionMessages ==
    [][(host = "gui" /\ session_state = "Active" /\ last'.op = "invalid") =>
         /\ ("api_unavailable" \in Kinds(last')) <=> (last'.lookup.path = "failed")
         /\ last'.lookup.path \in {"remote", "cache"} =>
              last'.messages = <<Msg("not_valid", NoWord)>>
      ]_vars

\* C21: in a GUI game, guesses plus the length of the guess log is wordsize + 1
\* and guesses stays within 0..wordsize + 1, so at most wordsize + 1 guesses
\* are scored in a session.
C21_GuessBudget ==
    (host = "gui" /\ session_state # "None") =>
        /\ guesses + Len(guess_log) = wordsize + 1
        /\ guesses \in 0..(wordsize + 1)
        /\ Len(guess_log) <= wordsize + 1

\* C22: once a game is built, every word of its list, the target among them,
\* is in the cache as True, and is_valid_word on it returns True from the
\* cache, with no request, whatever api_available is.
C22_ListWordsCached ==
    session_state # "None" =>
        /\ choice \in set(options)
        /\ \A w \in set(options) :
            /\ w \in DOMAIN validation_cache
            /\ validation_cache[w]
            /\ is_valid_word(w) =
                 {Outcome(TRUE, validation_cache, api_available, "cache", 0)}

\* in degraded mode the target was guessed, validated from the cache, and won
C22_Witness ==
    /\ session_state = "Won"
    /\ ~api_available
    /\ remote_calls = 1
    /\ last.guess = choice
    /\ last.lookup = [path |-> "cache", ret |-> TRUE]
    /\ last.result.score = EXACT * wordsize

\* C23: a game built by reset_game or from the main menu starts with
\* api_available true, no guessed words, an empty guess log and wordsize + 1
\* guesses, even when the game before it was degraded; the cache keeps every
\* entry it had; and with the flag on, a lookup of an uncached word makes a
\* request.
C23_DegradedPerSession ==
    [][/\ (host = "gui" /\ last'.op = "new_game") =>
            /\ api_available'
            /\ guessed_words' = {}
            /\ guess_log' = <<>>
            /\ guesses' = wordsize' + 1
            /\ remote_calls' = 0
            /\ \A w \in DOMAIN validation_cache :
                 /\ w \in DOMAIN validation_cache'
                 /\ validation_cache'[w] = validation_cache[w]
       /\ (api_available /\ Looks(last')
             /\ last'.guess \notin DOMAIN validation_cache) =>
            /\ last'.lookup.path \in {"remote", "failed"}
            /\ remote_calls' = remote_calls + 1
      ]_vars

\* a GUI game was just built in place of a degraded one: its flag is on, its
\* budget full, and the cache still holds a word an earlier game found not valid
C23_Witness ==
    /\ host = "gui"
    /\ last.op = "new_game"
    /\ last.replaced_degraded
    /\ api_available
    /\ guessed_words = {}
    /\ guess_log = <<>>
    /\ guesses = wordsize + 1
    /\ \E w \in DOMAIN validation_cache : ~validation_cache[w]

====
